---- MODULE Spec2Model ----
(***************************************************************************)
(* Model of the coloring-page pipeline scripts                             *)
(*   src/process_coloring_pipeline.py      (the "basic" script)            *)
(*   src/process_coloring_pipeline_adv.py  (the "adv" script)              *)
(* Both scripts live in the same folder ROOT and share the five stage      *)
(* directories; a run is one invocation of one of the two scripts.         *)
(*                                                                         *)
(* Modelling assumptions about the external tools (they are not code of    *)
(* the repository): an external command that exits 0 has written its       *)
(* output file; one that exits nonzero has written nothing.  Nothing but   *)
(* the scripts changes the workspace.                                      *)
(***************************************************************************)
EXTENDS Integers, Sequences, FiniteSets, TLC

\* ------------------------------------------------------------------ bounds
\* number of consecutive runs of the scripts that are explored
MaxRuns == 2

\* ------------------------------------------------------- names and paths
ScriptName == "process_coloring_pipeline.py"
ReadmeName == "README.md"
LogName    == "process.log"

\* the five folders main() creates, in the order of the mkdir loop
StageDirs == <<"input_png", "cleaned_png", "svg", "png", "pdf">>

\* image names a workspace may hold
Images == {"a.JPG", "a.png", "b.png"}
\* every name that may occur as an immediate child of ROOT
RootNames == Images \cup {ScriptName, ReadmeName, LogName, "notes.txt", "old.png"}
                    \cup {StageDirs[i] : i \in 1..Len(StageDirs)}

\* pathlib: Path(name).suffix
Suffix(n) ==
    CASE n = "a.JPG"     -> ".JPG"
      [] n = "a.png"     -> ".png"
      [] n = "b.png"     -> ".png"
      [] n = "old.png"   -> ".png"
      [] n = "notes.txt" -> ".txt"
      [] n = ScriptName  -> ".py"
      [] n = ReadmeName  -> ".md"
      [] n = LogName     -> ".log"
      [] OTHER           -> ""

\* pathlib: Path(name).stem
Stem(n) ==
    CASE n = "a.JPG" -> "a"
      [] n = "a.png" -> "a"
      [] n = "b.png" -> "b"
      [] OTHER       -> n

Stems == {Stem(n) : n \in Images}

\* str.lower() on the suffixes that occur
Lower(s) ==
    CASE s = ".JPG" -> ".jpg"
      [] s = ".PNG" -> ".png"
      [] OTHER      -> s

SUPPORTED_EXTS == {".png", ".jpg", ".jpeg", ".bmp", ".tiff", ".tif", ".webp"}

\* sorted() on Path objects: the order of the path strings ('J' < 'p', 'a' < 'b')
SortKey(n) ==
    CASE n = "a.JPG" -> 1
      [] n = "a.png" -> 2
      [] n = "b.png" -> 3
      [] OTHER       -> 0

\* INPUT / name
InputPath(n) ==
    CASE n = "a.JPG" -> "input_png/a.JPG"
      [] n = "a.png" -> "input_png/a.png"
      [] n = "b.png" -> "input_png/b.png"
      [] OTHER       -> "input_png/?"

\* the four derived artifacts of a stem
Kinds == {"cleaned", "svg", "png", "pdf"}

\* CLEANED / f"{stem}.png", SVG / f"{stem}.svg", PNG / f"{stem}.png", PDF / f"{stem}.pdf"
ArtPath(k, s) ==
    CASE k = "cleaned" /\ s = "a" -> "cleaned_png/a.png"
      [] k = "cleaned" /\ s = "b" -> "cleaned_png/b.png"
      [] k = "svg"     /\ s = "a" -> "svg/a.svg"
      [] k = "svg"     /\ s = "b" -> "svg/b.svg"
      [] k = "png"     /\ s = "a" -> "png/a.png"
      [] k = "png"     /\ s = "b" -> "png/b.png"
      [] k = "pdf"     /\ s = "a" -> "pdf/a.pdf"
      [] k = "pdf"     /\ s = "b" -> "pdf/b.pdf"
      [] OTHER                    -> "?"

\* ---------------------------------------------------------- configuration
EXPORT_WIDTH_ARG == "--export-width=3000"
THRESHOLD_PERCENT(sc) == IF sc = "basic" THEN "60%" ELSE "65%"
POSTERIZE_COLORS == "8"
LEVEL_ADJUSTMENT == "0%,80%"
\* the literal 0.05 of detect_color_mode, in hundredths
SaturationThreshold == 5

\* ------------------------------------------------------------ the tools
ToolNames == {"magick", "inkscape", "potrace"}

\* shutil.which(name): the resolved location, "" when the tool is not on PATH
Which(name, onPath) ==
    IF name \notin onPath THEN ""
    ELSE CASE name = "magick"   -> "/usr/bin/magick"
           [] name = "inkscape" -> "/usr/bin/inkscape"
           [] OTHER             -> "/usr/bin/potrace"

\* what the saturation probe may print on standard output
ProbeOutputs == {"0.04", "0.05", "0.06", "abc"}

\* float(result.stdout.strip()): ok = FALSE is ValueError; val in hundredths
ParseFloat(s) ==
    CASE s = "0.04" -> [ok |-> TRUE, val |-> 4]
      [] s = "0.05" -> [ok |-> TRUE, val |-> 5]
      [] s = "0.06" -> [ok |-> TRUE, val |-> 6]
      [] OTHER      -> [ok |-> FALSE, val |-> 0]

\* ------------------------------------------------------------------ state
VARIABLES
    root,        \* immediate children of ROOT: name -> "absent" | "dir" | file data
    input,       \* files of input_png: image name -> "absent" | file data
    art,         \* derived artifacts: stem -> kind -> the attempt that wrote it
    onPath,      \* the tools found on the executable search path
    run,         \* number of runs started so far
    pc,          \* position of the current run in main()
    exitStatus,  \* exit status of the process, once pc = "exited"
    script,      \* which of the two scripts this run executes
    usage,       \* args.__dict__.get('?')
    OVERWRITE,   \* args.overwrite
    MODE,        \* args.mode
    INVERT,      \* args.invert
    input_files, \* the sorted list main() gathers
    idx,         \* index in input_files of the file the for loop is at
    mode,        \* clean_png's local "mode" after auto resolution
    probe,       \* outcome of the saturation probe detect_color_mode just ran
    lastCmd,     \* argv of the external command started last
    log,         \* the entries this run appended to the run log
    calls,       \* the external processes this run started
    failures,    \* the stage invocations of this run that failed
    examined,    \* per examined file: the artifacts that existed when it was examined
    outcome,     \* per file: the terminal state it reached
    p1,          \* the converter process trace_svg started last
    stdout,      \* what the usage branch printed
    prev,        \* how the previous run ended, and the workspace it left
    tr           \* trace_svg seen process by process: the two children and their pipe

vars == <<root, input, art, onPath, run, pc, exitStatus, script, usage, OVERWRITE,
          MODE, INVERT, input_files, idx, mode, probe, lastCmd, log, calls,
          failures, examined, outcome, p1, stdout, prev, tr>>

\* an artifact that does not exist
NoArt == [run |-> -1, file |-> ""]
\* an artifact left by a successful attempt made before the first modelled run
Prior == [run |-> 0, file |-> "prior"]

NoProbe == [ran |-> FALSE, rc |-> 0, out |-> ""]

Entry(level, msg, file, arg) == [level |-> level, msg |-> msg, file |-> file, arg |-> arg]

NoP1 == [started |-> FALSE, waited |-> FALSE, rc |-> 0]

\* trace_svg not entered: no child process, no pipe
NoPipe == [at |-> "off", conv |-> "none", rc1 |-> 0, left |-> 0, pipe |-> 0,
           tracer |-> "none", rc2 |-> 0, readEnds |-> {}, waited |-> {}]

\* the contents of ROOT and of the five stage directories
Workspace == [root |-> root, input |-> input, art |-> art]

\* Path.exists() of an artifact
Exists(a, s, k) == a[s][k] # NoArt

\* outputs_exist = all(p.exists() for p in (cleaned_png, svg_file, out_png, out_pdf))
OutputsExist(a, s) == \A k \in Kinds : Exists(a, s, k)

\* ShouldSkip with the negation of the overwrite flag lost
ShouldSkipInverted(outputs_exist, overwrite) == outputs_exist /\ overwrite

\* if outputs_exist and not OVERWRITE: ... continue
ShouldSkip(outputs_exist, overwrite) == outputs_exist /\ ~overwrite

\* ------------------------------------------------------------------- Init
\* The workspaces a run may start from: the images lying loose in ROOT, the
\* images resident in input_png, and the stems a run before the first modelled
\* one processed successfully.  A workspace with no resident image is one the
\* scripts never ran in (no stage directory, no log file).
Layouts ==
    {[loose |-> l, resident |-> {}, done |-> {}] : l \in SUBSET {"a.JPG", "b.png"}}
    \cup {[loose |-> l, resident |-> {"a.png"}, done |-> d] :
              l \in SUBSET {"a.JPG"}, d \in SUBSET {"a"}}
    \cup {[loose |-> l, resident |-> {"b.png"}, done |-> d] :
              l \in {{"b.png"}, {"a.JPG", "b.png"}}, d \in SUBSET {"b"}}

\* the workspace and the search path a first run finds
InitWorkspace ==
    /\ onPath \in SUBSET ToolNames
    /\ \E w \in Layouts, readme \in BOOLEAN :
         LET fresh == w.resident = {} IN
         /\ readme \/ (w.loose = {} /\ fresh)
         /\ root = [n \in RootNames |->
                      CASE n = ScriptName  -> "script"
                        [] n = ReadmeName  -> IF readme THEN "readme" ELSE "absent"
                        [] n = LogName     -> IF fresh THEN "absent" ELSE "logfile"
                        [] n = "notes.txt" -> "notes"
                        [] n = "old.png"   -> "dir"
                        [] n \in w.loose   -> "loose"
                        [] n \in Images    -> "absent"
                        [] OTHER           -> IF fresh THEN "absent" ELSE "dir"]
         /\ input = [n \in Images |-> IF n \in w.resident THEN "resident" ELSE "absent"]
         /\ art = [s \in Stems |-> [k \in Kinds |-> IF s \in w.done THEN Prior ELSE NoArt]]

\* no run started yet
InitRun ==
    /\ run = 0
    /\ pc = "idle"
    /\ exitStatus = 0
    /\ script = "basic"
    /\ usage = FALSE
    /\ OVERWRITE = FALSE
    /\ MODE = "bw"
    /\ INVERT = "off"
    /\ input_files = <<>>
    /\ idx = 0
    /\ mode = "bw"
    /\ probe = NoProbe
    /\ lastCmd = <<>>
    /\ log = <<>>
    /\ calls = <<>>
    /\ failures = <<>>
    /\ examined = <<>>
    /\ outcome = <<>>
    /\ p1 = NoP1
    /\ stdout = ""
    /\ prev = [settled |-> FALSE, ws |-> Workspace]

Init == InitWorkspace /\ InitRun /\ tr = NoPipe

\* ------------------------------------------------------------ pure helpers
RECURSIVE SortedSeq(_)
\* sorted([...]): ascending by path
SortedSeq(S) ==
    IF S = {} THEN <<>>
    ELSE LET least == CHOOSE n \in S : \A o \in S : SortKey(n) <= SortKey(o)
         IN  <<least>> \o SortedSeq(S \ {least})

\* the orders in which a directory listing may yield the names of S
Orders(S) == {o \in [1..Cardinality(S) -> S] : \A n \in S : \E i \in DOMAIN o : o[i] = n}

\* DetectColorMode with the comparison made inclusive (>=)
DetectColorModeInclusive(rc, out) ==
    IF rc # 0 THEN [mode |-> "bw", warned |-> TRUE]
    ELSE LET saturation == ParseFloat(out)
         IN  IF ~saturation.ok THEN [mode |-> "bw", warned |-> TRUE]
             ELSE IF saturation.val >= SaturationThreshold
                  THEN [mode |-> "color", warned |-> FALSE]
                  ELSE [mode |-> "bw", warned |-> FALSE]

\* detect_color_mode: the mode it returns, and whether it logged the warning
DetectColorMode(rc, out) ==
    IF rc # 0 THEN [mode |-> "bw", warned |-> TRUE]
    ELSE LET saturation == ParseFloat(out)
         IN  IF ~saturation.ok THEN [mode |-> "bw", warned |-> TRUE]
             ELSE IF saturation.val > SaturationThreshold
                  THEN [mode |-> "color", warned |-> FALSE]
                  ELSE [mode |-> "bw", warned |-> FALSE]

\* the argv detect_color_mode builds
ProbeCmd(magick, f) ==
    <<magick, InputPath(f), "-colorspace", "HSL", "-channel", "S", "-separate",
      "-format", "%[fx:mean]", "info:">>

\* the transforms of the mode branch of clean_png
ModeArgs(sc, m) ==
    IF m = "color"
    THEN <<"-dither", "None", "-colors", POSTERIZE_COLORS, "-colorspace", "Gray",
           "-threshold", THRESHOLD_PERCENT(sc)>>
    ELSE <<"-alpha", "remove", "-alpha", "off", "-colorspace", "Gray",
           "-threshold", THRESHOLD_PERCENT(sc)>>

\* CleanCmd as it would be if the negation were appended after the mode branch
CleanCmdNegateLast(s, magick, f, m, invert) ==
    IF s = "basic"
    THEN <<magick, InputPath(f)>> \o ModeArgs(s, "bw") \o <<ArtPath("cleaned", Stem(f))>>
    ELSE <<magick, InputPath(f), "-level", LEVEL_ADJUSTMENT>>
         \o ModeArgs(s, m)
         \o (IF invert = "on" THEN <<"-negate">> ELSE <<>>)
         \o <<ArtPath("cleaned", Stem(f))>>

\* the argv clean_png builds
CleanCmd(s, magick, f, m, invert) ==
    IF s = "basic"
    THEN <<magick, InputPath(f)>> \o ModeArgs(s, "bw") \o <<ArtPath("cleaned", Stem(f))>>
    ELSE <<magick, InputPath(f), "-level", LEVEL_ADJUSTMENT>>
         \o (IF invert = "on" THEN <<"-negate">> ELSE <<>>)
         \o ModeArgs(s, m)
         \o <<ArtPath("cleaned", Stem(f))>>

\* the two argv of trace_svg
MagickPipeCmd(f) == <<"magick", ArtPath("cleaned", Stem(f)), "pnm:-">>
PotraceCmd(f) ==
    <<"potrace", "-s", "--turdsize", "5", "--alphamax", "1", "--opttolerance", "0.5",
      "-o", ArtPath("svg", Stem(f))>>

\* f"--export-filename={dst}"
ExportFilenameArg(dst) ==
    CASE dst = "png/a.png" -> "--export-filename=png/a.png"
      [] dst = "png/b.png" -> "--export-filename=png/b.png"
      [] dst = "pdf/a.pdf" -> "--export-filename=pdf/a.pdf"
      [] dst = "pdf/b.pdf" -> "--export-filename=pdf/b.pdf"
      [] OTHER             -> "--export-filename=?"

ExportPngCmd(inkscape, f) ==
    <<inkscape, ArtPath("svg", Stem(f)), EXPORT_WIDTH_ARG, "--export-type=png",
      "--export-area-drawing", ExportFilenameArg(ArtPath("png", Stem(f)))>>

ExportPdfCmd(inkscape, f) ==
    <<inkscape, ArtPath("svg", Stem(f)), "--export-type=pdf",
      "--export-area-drawing", ExportFilenameArg(ArtPath("pdf", Stem(f)))>>

\* one external process: what it is for, the input file it serves, whether its
\* command line was logged, whether the script waited for it
Call(role, f, logged, awaited) ==
    [role |-> role, file |-> f, logged |-> logged, awaited |-> awaited]

\* the file the for loop is at
Cur == input_files[idx]

\* the attempt of this run on the current file
Attempt == [run |-> run, file |-> Cur]

\* ------------------------------------------------------- main(): start-up
\* the log lines main() writes before it touches the workspace
StartEntries(sc) ==
    IF sc = "basic"
    THEN <<Entry("INFO", "Starting coloring pipeline", "", ""),
           Entry("INFO", "=====", "", ""),
           Entry("INFO", "EXPORT_WIDTH_PX", "", ""),
           Entry("INFO", "THRESHOLD_PERCENT", "", ""),
           Entry("INFO", "TURDSIZE", "", ""),
           Entry("INFO", "OPTTOLERANCE", "", ""),
           Entry("INFO", "=====", "", "")>>
    ELSE <<Entry("INFO", "Starting coloring pipeline", "", "")>>

\* whether the run that just ended returned from main() (exit status 0, no usage flag)
Completed == pc = "exited" /\ exitStatus = 0 /\ ~usage

\* the run that just ended was made without the overwrite flag, returned from
\* main(), and every input file ended skipped or succeeded
Settled ==
    /\ Completed
    /\ ~OVERWRITE
    /\ Len(outcome) = Len(input_files)
    /\ \A j \in DOMAIN outcome : outcome[j].state \in {"skipped", "succeeded"}

\* StartRun as it would be if the folders were created before the usage flag is served
StartRunDirsFirst(sc, u, o, m, i) ==
    /\ pc \in {"idle", "exited"}
    /\ run < MaxRuns
    /\ run' = run + 1
    /\ script' = sc /\ usage' = u /\ OVERWRITE' = o /\ MODE' = m /\ INVERT' = i
    /\ prev' = [settled |-> Settled, ws |-> Workspace]
    /\ root' = [n \in RootNames |->
                  IF n = LogName THEN "logfile"
                  ELSE IF \E d \in DOMAIN StageDirs : StageDirs[d] = n THEN "dir"
                  ELSE root[n]]
    /\ IF u
       THEN /\ stdout' = IF root[ReadmeName] # "absent" THEN "README" ELSE "README.md not found."
            /\ log' = <<>>
            /\ exitStatus' = 0
            /\ pc' = "exited"
       ELSE /\ stdout' = ""
            /\ log' = StartEntries(sc)
            /\ exitStatus' = 0
            /\ pc' = "mkdirs"
    /\ input_files' = <<>> /\ idx' = 0 /\ mode' = "bw" /\ probe' = NoProbe
    /\ lastCmd' = <<>> /\ calls' = <<>> /\ failures' = <<>> /\ examined' = <<>>
    /\ outcome' = <<>> /\ p1' = NoP1
    /\ UNCHANGED <<tr, input, art, onPath>>

\* The process starts: the module-level logging set-up opens process.log,
\* main() parses the arguments and serves the usage flag.
StartRun(sc, u, o, m, i) ==
    /\ pc \in {"idle", "exited"}
    /\ run < MaxRuns
    /\ run' = run + 1
    /\ script' = sc /\ usage' = u /\ OVERWRITE' = o /\ MODE' = m /\ INVERT' = i
    /\ prev' = [settled |-> Settled, ws |-> Workspace]
    /\ root' = [root EXCEPT ![LogName] = "logfile"]
    /\ IF u
       THEN /\ stdout' = IF root[ReadmeName] # "absent" THEN "README" ELSE "README.md not found."
            /\ log' = <<>>
            /\ exitStatus' = 0
            /\ pc' = "exited"
       ELSE /\ stdout' = ""
            /\ log' = StartEntries(sc)
            /\ exitStatus' = 0
            /\ pc' = "mkdirs"
    /\ input_files' = <<>> /\ idx' = 0 /\ mode' = "bw" /\ probe' = NoProbe
    /\ lastCmd' = <<>> /\ calls' = <<>> /\ failures' = <<>> /\ examined' = <<>>
    /\ outcome' = <<>> /\ p1' = NoP1
    /\ UNCHANGED <<tr, input, art, onPath>>

\* for folder in (INPUT, CLEANED, SVG, PNG, PDF): folder.mkdir(exist_ok=True)
MakeDirs ==
    /\ pc = "mkdirs"
    /\ root' = [n \in RootNames |->
                  IF \E d \in DOMAIN StageDirs : StageDirs[d] = n THEN "dir" ELSE root[n]]
    /\ pc' = "relocate"
    /\ UNCHANGED <<tr, input, art, onPath, run, exitStatus, script, usage, OVERWRITE, MODE,
                   INVERT, input_files, idx, mode, probe, lastCmd, log, calls, failures,
                   examined, outcome, p1, stdout, prev>>

\* MoveCandidates with the suffix compared as it is spelt (no .lower())
MoveCandidatesCaseSensitive(r) ==
    {n \in RootNames :
        /\ r[n] \notin {"absent", "dir"}
        /\ n \notin {ScriptName, ReadmeName}
        /\ Suffix(n) \in SUPPORTED_EXTS}

\* the children of ROOT the relocation loop does not "continue" past before
\* it computes the target
MoveCandidates(r) ==
    {n \in RootNames :
        /\ r[n] \notin {"absent", "dir"}
        /\ n \notin {ScriptName, ReadmeName}
        /\ Lower(Suffix(n)) \in SUPPORTED_EXTS}

\* body of the relocation loop for one candidate n
MoveOne(st, n) ==
    IF st.input[n] # "absent"
    THEN [st EXCEPT !.log = Append(@, Entry("INFO", "skipping move", n, ""))]
    ELSE [root  |-> [st.root EXCEPT ![n] = "absent"],
          input |-> [st.input EXCEPT ![n] = st.root[n]],
          log   |-> Append(st.log, Entry("INFO", "Moving", n, ""))]

RECURSIVE MoveAll(_, _)
MoveAll(st, order) ==
    IF order = <<>> THEN st
    ELSE MoveAll(MoveOne(st, Head(order)), Tail(order))

\* for file_path in ROOT.iterdir(): ... shutil.move(...)
Relocate ==
    /\ pc = "relocate"
    /\ \E order \in Orders(MoveCandidates(root)) :
         LET st == MoveAll([root |-> root, input |-> input, log |-> log], order)
         IN  /\ root' = st.root
             /\ input' = st.input
             /\ log' = st.log
    /\ pc' = "tools"
    /\ UNCHANGED <<tr, art, onPath, run, exitStatus, script, usage, OVERWRITE, MODE,
                   INVERT, input_files, idx, mode, probe, lastCmd, calls, failures,
                   examined, outcome, p1, stdout, prev>>

\* the tools main() requires, in the order it requires them
Required == <<"magick", "inkscape", "potrace">>

\* the first required tool shutil.which does not find; 0 when all are found
FirstMissing(found) ==
    IF \A j \in DOMAIN Required : Which(Required[j], found) # "" THEN 0
    ELSE CHOOSE j \in DOMAIN Required :
           /\ Which(Required[j], found) = ""
           /\ \A h \in 1..(j - 1) : Which(Required[h], found) # ""

\* require_tool("magick"); require_tool("inkscape"); require_tool("potrace")
CheckTools ==
    /\ pc = "tools"
    /\ LET miss == FirstMissing(onPath) IN
       IF miss # 0
       THEN /\ \E win32 \in BOOLEAN :
                 log' = log \o <<Entry("ERROR", "Required tool not found on PATH", "", Required[miss])>>
                            \o (IF win32
                                THEN <<Entry("ERROR", "Please ensure the folder is in your PATH", "", Required[miss])>>
                                ELSE <<>>)
            /\ exitStatus' = 1
            /\ pc' = "exited"
       ELSE /\ log' = IF script = "basic"
                      THEN log \o <<Entry("INFO", "Using ImageMagick", "", Which("magick", onPath)),
                                    Entry("INFO", "Using Inkscape", "", Which("inkscape", onPath))>>
                      ELSE log
            /\ exitStatus' = exitStatus
            /\ pc' = "gather"
    /\ UNCHANGED <<tr, root, input, art, onPath, run, script, usage, OVERWRITE, MODE,
                   INVERT, input_files, idx, mode, probe, lastCmd, calls, failures,
                   examined, outcome, p1, stdout, prev>>

\* Gather as it would be if an empty input directory were left without a warning
GatherSilent ==
    /\ pc = "gather"
    /\ LET found == SortedSeq({n \in Images :
                                 input[n] # "absent" /\ Lower(Suffix(n)) \in SUPPORTED_EXTS})
       IN  /\ input_files' = found
           /\ log' = log
           /\ IF found = <<>>
              THEN /\ exitStatus' = 0
                   /\ pc' = "exited"
                   /\ idx' = idx
              ELSE /\ exitStatus' = exitStatus
                   /\ pc' = "examine"
                   /\ idx' = 1
    /\ UNCHANGED <<tr, root, input, art, onPath, run, script, usage, OVERWRITE, MODE,
                   INVERT, mode, probe, lastCmd, calls, failures, examined, outcome,
                   p1, stdout, prev>>

\* input_files = sorted([...]); if not input_files: warning, return
Gather ==
    /\ pc = "gather"
    /\ LET found == SortedSeq({n \in Images :
                                 input[n] # "absent" /\ Lower(Suffix(n)) \in SUPPORTED_EXTS})
       IN  /\ input_files' = found
           /\ IF found = <<>>
              THEN /\ log' = Append(log, Entry("WARNING", "No supported image files found", "", ""))
                   /\ exitStatus' = 0
                   /\ pc' = "exited"
                   /\ idx' = idx
              ELSE /\ log' = log
                   /\ exitStatus' = exitStatus
                   /\ pc' = "examine"
                   /\ idx' = 1
    /\ UNCHANGED <<tr, root, input, art, onPath, run, script, usage, OVERWRITE, MODE,
                   INVERT, mode, probe, lastCmd, calls, failures, examined, outcome,
                   p1, stdout, prev>>

\* ------------------------------------------------- main(): the file loop
\* the variables no step of the file loop changes
fixed == <<tr, root, input, onPath, run, script, usage, OVERWRITE, MODE, INVERT,
           input_files, stdout, prev>>

\* Write as it would be if the document export went to a path other than out_pdf
WriteElsewherePdf(a, k) == IF k = "pdf" THEN a ELSE [a EXCEPT ![Stem(Cur)][k] = Attempt]

\* an artifact written by the current attempt
Write(a, k) == [a EXCEPT ![Stem(Cur)][k] = Attempt]

\* Except as it would be if the handler left the loop ("break") after logging
ExceptBreak(stage, entries) ==
    /\ log' = log \o entries \o <<Entry("ERROR", "Failed processing", Cur, stage)>>
    /\ failures' = Append(failures, [stage |-> stage, file |-> Cur])
    /\ outcome' = Append(outcome, [file |-> Cur, state |-> "failed"])
    /\ idx' = Len(input_files) + 1
    /\ pc' = "examine"
    /\ exitStatus' = exitStatus
    /\ art' = art

\* Except as it would be if each stage had its own handler: the error is
\* logged and the file goes on with the following stage
ExceptContinue(stage, entries) ==
    /\ log' = log \o entries \o <<Entry("ERROR", "Failed processing", Cur, stage)>>
    /\ failures' = Append(failures, [stage |-> stage, file |-> Cur])
    /\ IF stage = "export_pdf"
       THEN /\ outcome' = Append(outcome, [file |-> Cur, state |-> "failed"])
            /\ idx' = idx + 1
            /\ pc' = "examine"
       ELSE /\ outcome' = outcome
            /\ idx' = idx
            /\ pc' = CASE stage = "clean" -> "trace"
                       [] stage = "trace" -> "export_png"
                       [] OTHER -> "export_pdf"
    /\ exitStatus' = exitStatus
    /\ art' = art

\* Except as it would be if the exception were not caught: the process dies
ExceptEscape(stage, entries) ==
    /\ log' = log \o entries
    /\ failures' = Append(failures, [stage |-> stage, file |-> Cur])
    /\ outcome' = Append(outcome, [file |-> Cur, state |-> "failed"])
    /\ idx' = idx
    /\ pc' = "exited"
    /\ exitStatus' = 1
    /\ art' = art

\* except Exception as e: logging.error(...); the loop goes on with the next file
Except(stage, entries) ==
    /\ log' = log \o entries \o <<Entry("ERROR", "Failed processing", Cur, stage)>>
    /\ failures' = Append(failures, [stage |-> stage, file |-> Cur])
    /\ outcome' = Append(outcome, [file |-> Cur, state |-> "failed"])
    /\ idx' = idx + 1
    /\ pc' = "examine"
    /\ exitStatus' = exitStatus
    /\ art' = art

\* FirstStage as it would be if the driver resumed after the artifacts present
FirstStageResume(had) ==
    IF "cleaned" \notin had THEN "clean"
    ELSE IF "svg" \notin had THEN "trace"
    ELSE IF "png" \notin had THEN "export_png"
    ELSE "export_pdf"

\* the first statement of the try block: clean_png(...), whatever already exists
FirstStage(had) == "clean"

\* head of the loop body: the four expected paths, outputs_exist, the skip
Examine ==
    /\ pc = "examine"
    /\ idx <= Len(input_files)
    /\ LET outputs_exist == OutputsExist(art, Stem(Cur)) IN
       /\ examined' = Append(examined,
                              [file |-> Cur, had |-> {k \in Kinds : Exists(art, Stem(Cur), k)}])
       /\ IF ShouldSkip(outputs_exist, OVERWRITE)
          THEN /\ log' = log \o <<Entry("INFO", "Processing", Cur, ""),
                                  Entry("INFO", "Skipping", Cur, "")>>
               /\ outcome' = Append(outcome, [file |-> Cur, state |-> "skipped"])
               /\ idx' = idx + 1
               /\ pc' = "examine"
          ELSE /\ log' = Append(log, Entry("INFO", "Processing", Cur, ""))
               /\ outcome' = outcome
               /\ idx' = idx
               /\ pc' = FirstStage({k \in Kinds : Exists(art, Stem(Cur), k)})
    /\ probe' = NoProbe /\ p1' = NoP1
    /\ UNCHANGED <<fixed, art, exitStatus, mode, lastCmd, calls, failures>>

\* clean_png after its mode is resolved to m: the invert notice, run(cmd)
CleanPng(m, entries, started) ==
    /\ mode' = m
    /\ lastCmd' = CleanCmd(script, Which("magick", onPath), Cur, m, INVERT)
    /\ calls' = calls \o started \o <<Call("clean", Cur, TRUE, TRUE)>>
    /\ \E rc \in {0, 1} :
         LET told == entries
                     \o (IF script = "adv" /\ INVERT = "on"
                         THEN <<Entry("INFO", "Applying INVERT", Cur, "")>> ELSE <<>>)
                     \o <<Entry("INFO", "Running", Cur, "clean")>>
         IN  IF rc = 0
             THEN /\ art' = Write(art, "cleaned")
                  /\ log' = log \o told
                  /\ pc' = "trace"
                  /\ UNCHANGED <<failures, outcome, idx, exitStatus>>
             ELSE Except("clean", told)
    /\ p1' = NoP1
    /\ UNCHANGED <<fixed, examined>>

\* clean_png with mode == 'auto' (the adv script's default): the probe runs first
CleanAuto ==
    /\ pc = "clean"
    /\ script = "adv" /\ MODE = "auto"
    /\ \E rc \in {0, 1}, out \in ProbeOutputs :
         LET det == DetectColorMode(rc, out) IN
         /\ probe' = [ran |-> TRUE, rc |-> rc, out |-> out]
         /\ CleanPng(det.mode,
                     (IF det.warned
                      THEN <<Entry("WARNING", "Could not auto-detect color", Cur, "bw")>>
                      ELSE <<>>)
                     \o <<Entry("INFO", "Auto-detection", Cur, det.mode)>>,
                     <<Call("probe", Cur, FALSE, TRUE)>>)

\* clean_png of the basic script, and of the adv script with a forced mode
CleanForced ==
    /\ pc = "clean"
    /\ ~(script = "adv" /\ MODE = "auto")
    /\ probe' = NoProbe
    /\ IF script = "basic"
       THEN CleanPng("bw", <<>>, <<>>)
       ELSE CleanPng(MODE, <<Entry("INFO", "forced mode", Cur, MODE)>>, <<>>)

\* trace_svg: Popen(cmd_magick), run(cmd_potrace, check=True), p1.wait(),
\* as one step, for a tracer that reads its input to the end; SpecTrace takes
\* the same lines process by process, without that assumption
Trace ==
    /\ pc = "trace"
    /\ lastCmd' = PotraceCmd(Cur)
    /\ \E rc1 \in {0, 1}, rc2 \in {0, 1} :
         IF rc2 = 0
         THEN /\ calls' = calls \o <<Call("convert", Cur, FALSE, TRUE),
                                     Call("trace", Cur, FALSE, TRUE)>>
              /\ p1' = [started |-> TRUE, waited |-> TRUE, rc |-> rc1]
              /\ log' = Append(log, Entry("INFO", "Tracing", Cur, ""))
              /\ art' = Write(art, "svg")
              /\ pc' = "export_png"
              /\ UNCHANGED <<failures, outcome, idx, exitStatus>>
         ELSE /\ calls' = calls \o <<Call("convert", Cur, FALSE, FALSE),
                                     Call("trace", Cur, FALSE, TRUE)>>
              /\ p1' = [started |-> TRUE, waited |-> FALSE, rc |-> 0]
              /\ Except("trace", <<Entry("INFO", "Tracing", Cur, ""),
                                   Entry("ERROR", "Tracing failed", Cur, "")>>)
    /\ probe' = NoProbe
    /\ UNCHANGED <<fixed, mode, examined>>

\* run(cmd) of an export stage that writes artifact k
Export(stage, k, cmd, next) ==
    /\ lastCmd' = cmd
    /\ calls' = Append(calls, Call(stage, Cur, TRUE, TRUE))
    /\ \E rc \in {0, 1} :
         IF rc = 0
         THEN /\ art' = Write(art, k)
              /\ log' = Append(log, Entry("INFO", "Running", Cur, stage))
              /\ IF next = "examine"
                 THEN /\ outcome' = Append(outcome, [file |-> Cur, state |-> "succeeded"])
                      /\ idx' = idx + 1
                 ELSE UNCHANGED <<outcome, idx>>
              /\ pc' = next
              /\ UNCHANGED <<failures, exitStatus>>
         ELSE Except(stage, <<Entry("INFO", "Running", Cur, stage)>>)
    /\ probe' = NoProbe /\ p1' = NoP1
    /\ UNCHANGED <<fixed, mode, examined>>

ExportPng ==
    /\ pc = "export_png"
    /\ Export("export_png", "png", ExportPngCmd(Which("inkscape", onPath), Cur), "export_pdf")

ExportPdf ==
    /\ pc = "export_pdf"
    /\ Export("export_pdf", "pdf", ExportPdfCmd(Which("inkscape", onPath), Cur), "examine")

\* the loop is exhausted: logging.info("Pipeline complete"), main() returns
Finish ==
    /\ pc = "examine"
    /\ idx > Len(input_files)
    /\ log' = Append(log, Entry("INFO", "Pipeline complete", "", ""))
    /\ exitStatus' = 0
    /\ pc' = "exited"
    /\ probe' = NoProbe /\ p1' = NoP1
    /\ UNCHANGED <<fixed, art, idx, mode, lastCmd, calls, failures, examined, outcome>>

\* the command lines a user may give
Invocations ==
    {[sc |-> "basic", m |-> "bw", i |-> "off"], [sc |-> "adv", m |-> "auto", i |-> "off"]}
    \cup [sc : {"adv"}, m : {"color", "bw"}, i : {"on", "off"}]

Next ==
    \/ \E c \in Invocations, u \in BOOLEAN, o \in BOOLEAN : StartRun(c.sc, u, o, c.m, c.i)
    \/ MakeDirs
    \/ Relocate
    \/ CheckTools
    \/ Gather
    \/ Examine
    \/ CleanAuto
    \/ CleanForced
    \/ Trace
    \/ ExportPng
    \/ ExportPdf
    \/ Finish

Spec == Init /\ [][Next]_vars

\* ------------------------------------- trace_svg, process by process
\* capacity of the OS pipe between the converter and the tracer, in chunks
PipeCap == 2
\* the largest PNM stream the converter may have to write, in chunks
MaxChunks == 3

\* everything trace_svg's children leave alone
mainVars == <<root, input, art, onPath, run, pc, exitStatus, script, usage, OVERWRITE,
              MODE, INVERT, input_files, idx, mode, probe, lastCmd, log, calls,
              failures, examined, outcome, p1, stdout, prev>>

\* trace_svg is entered for a.png in a workspace holding nothing else
InitTrace ==
    /\ InitWorkspace
    /\ InitRun
    /\ onPath = ToolNames
    /\ input["a.png"] # "absent"
    /\ root["a.JPG"] = "absent"
    /\ ~Exists(art, "a", "pdf")
    /\ tr = [NoPipe EXCEPT !.at = "popen"]

\* p1 = subprocess.Popen(cmd_magick, stdout=subprocess.PIPE): the converter
\* starts with its stream still to write; the script holds the pipe's read end
Popen ==
    /\ tr.at = "popen"
    /\ \E n \in 0..MaxChunks :
         tr' = [tr EXCEPT !.at = "run", !.conv = "running", !.left = n,
                          !.readEnds = {"parent"}]
    /\ UNCHANGED mainVars

\* subprocess.run(cmd_potrace, stdin=p1.stdout, ...): the tracer starts with a
\* copy of the read end; the script keeps its own copy open
RunPotrace ==
    /\ tr.at = "run"
    /\ tr.tracer = "none"
    /\ tr' = [tr EXCEPT !.tracer = "running", !.readEnds = @ \cup {"tracer"}]
    /\ UNCHANGED mainVars

\* the converter writes one chunk; write() blocks while the pipe is full
ConvWrite ==
    /\ tr.conv = "running"
    /\ tr.left > 0
    /\ tr.readEnds # {}
    /\ tr.pipe < PipeCap
    /\ tr' = [tr EXCEPT !.left = @ - 1, !.pipe = @ + 1]
    /\ UNCHANGED mainVars

\* the converter writes when no process holds the read end: broken pipe
ConvBrokenPipe ==
    /\ tr.conv = "running"
    /\ tr.left > 0
    /\ tr.readEnds = {}
    /\ tr' = [tr EXCEPT !.conv = "exited", !.rc1 = 1]
    /\ UNCHANGED mainVars

\* the converter exits: after its last chunk with either status, or with an
\* error before that when it is not blocked in write()
ConvExit ==
    /\ tr.conv = "running"
    /\ \E rc \in {0, 1} :
         /\ tr.left = 0 \/ (rc = 1 /\ tr.pipe < PipeCap)
         /\ tr' = [tr EXCEPT !.conv = "exited", !.rc1 = rc]
    /\ UNCHANGED mainVars

\* the tracer reads one chunk
TracerRead ==
    /\ tr.tracer = "running"
    /\ tr.pipe > 0
    /\ tr' = [tr EXCEPT !.pipe = @ - 1]
    /\ UNCHANGED mainVars

\* the tracer exits, with either status, whether or not it read the whole
\* stream; its copy of the read end closes
TracerExit ==
    /\ tr.tracer = "running"
    /\ \E rc \in {0, 1} :
         tr' = [tr EXCEPT !.tracer = "exited", !.rc2 = rc, !.readEnds = @ \ {"tracer"}]
    /\ UNCHANGED mainVars

\* subprocess.run returns once the tracer has exited; check=True raises
\* CalledProcessError on a nonzero status, which trace_svg logs and re-raises
RunReturns ==
    /\ tr.at = "run"
    /\ tr.tracer = "exited"
    /\ tr' = [tr EXCEPT !.waited = @ \cup {"tracer"},
                        !.at = IF tr.rc2 # 0 THEN "raised" ELSE "wait"]
    /\ UNCHANGED mainVars

\* WaitP1 as it would be if the converter's status were checked as well
WaitP1Checked ==
    /\ tr.at = "wait"
    /\ tr.conv = "exited"
    /\ tr' = [tr EXCEPT !.waited = @ \cup {"conv"},
                        !.at = IF tr.rc1 # 0 THEN "raised" ELSE "returned"]
    /\ UNCHANGED mainVars

\* p1.wait(): returns once the converter has exited; its status is not read
WaitP1 ==
    /\ tr.at = "wait"
    /\ tr.conv = "exited"
    /\ tr' = [tr EXCEPT !.waited = @ \cup {"conv"}, !.at = "returned"]
    /\ UNCHANGED mainVars

\* trace_svg is left: p1 goes out of scope and its stdout is closed with it
ReleaseP1 ==
    /\ tr.at \in {"returned", "raised"}
    /\ "parent" \in tr.readEnds
    /\ tr' = [tr EXCEPT !.readEnds = @ \ {"parent"}]
    /\ UNCHANGED mainVars

NextTrace ==
    \/ Popen
    \/ RunPotrace
    \/ ConvWrite
    \/ ConvBrokenPipe
    \/ ConvExit
    \/ TracerRead
    \/ TracerExit
    \/ RunReturns
    \/ WaitP1
    \/ ReleaseP1

SpecTrace == InitTrace /\ [][NextTrace]_vars

\* ------------------------------------------------------------- properties
Terminal == {"skipped", "succeeded", "failed"}

\* the images present in input_png
FilesInInput == {n \in Images : input[n] # "absent"}

\* the positions of sequence q whose entry is about file f
About(q, f) == {j \in DOMAIN q : q[j].file = f}

\* the external processes started for file f in the role r
Started(f, r) == {j \in DOMAIN calls : calls[j].file = f /\ calls[j].role = r}

Stages == {"clean", "trace", "export_png", "export_pdf"}

\* a step of the file loop of main()
LoopStep ==
    Examine \/ CleanAuto \/ CleanForced \/ Trace \/ ExportPng \/ ExportPdf \/ Finish

C2_SkipSemantics ==
    \A j \in DOMAIN examined :
       (examined[j].had = Kinds /\ ~OVERWRITE) =>
          LET f == examined[j].file IN
          /\ About(calls, f) = {}
          /\ \A s \in Stems, k \in Kinds : art[s][k] # [run |-> run, file |-> f]
          /\ Cardinality({i \in About(log, f) : log[i].msg = "Skipping"}) = 1
          /\ \E i \in DOMAIN outcome : outcome[i] = [file |-> f, state |-> "skipped"]

\* C2 witness: a file with four existing artifacts was skipped while another
\* file of the same run was processed
C2_Witness ==
    /\ ~OVERWRITE
    /\ \E j \in DOMAIN examined : examined[j].had = Kinds
    /\ \E i \in DOMAIN outcome : outcome[i].state = "skipped"
    /\ calls # <<>>

\* the artifacts that existed when file f was examined
HadAt(f) == examined[CHOOSE j \in DOMAIN examined : examined[j].file = f].had

\* C3: no partial-stage resume.  A file is skipped iff all four artifacts
\* existed and the overwrite flag is off; every other file is processed from
\* the Clean stage, whatever artifacts existed; a file that succeeded had each
\* of the four stages invoked exactly once.
C3_NoPartialResume ==
    \A j \in DOMAIN outcome :
       LET f == outcome[j].file IN
       /\ (outcome[j].state = "skipped") <=> (HadAt(f) = Kinds /\ ~OVERWRITE)
       /\ outcome[j].state # "skipped" =>
             /\ Cardinality(Started(f, "clean")) = 1
             /\ \A c \in About(calls, f) :
                   calls[c].role \in (Stages \ {"clean"}) =>
                      \E d \in Started(f, "clean") : d < c
       /\ outcome[j].state = "succeeded" =>
             \A r \in Stages : Cardinality(Started(f, r)) = 1

\* C3 witness: a file whose cleaned image and vector trace already existed,
\* but not all four artifacts, was processed to success
C3_Witness ==
    \E j \in DOMAIN outcome :
       /\ outcome[j].state = "succeeded"
       /\ {"cleaned", "svg"} \subseteq HadAt(outcome[j].file)
       /\ HadAt(outcome[j].file) # Kinds
       /\ ~OVERWRITE

\* C4 (as claimed): when a required tool is missing the process exits nonzero
\* before any file is touched: no loose image has been relocated into the
\* input directory and no external process has been started.
C4_ToolCheckBeforeTouch ==
    (pc = "exited" /\ exitStatus # 0) =>
       /\ input = prev.ws.input
       /\ \A n \in Images : root[n] = prev.ws.root[n]
       /\ calls = <<>>

\* a child of ROOT that is a file with a supported extension, in any case
LooseImage(r, n) == r[n] \notin {"absent", "dir"} /\ Lower(Suffix(n)) \in SUPPORTED_EXTS

\* C5: relocation on discovery.  Across the relocation step, every file of
\* ROOT with a supported extension (in any case) is moved into the input
\* directory when no same-named entry was there (it is then gone from ROOT),
\* and otherwise both files are left as they were and one more skipped-move
\* entry about it is in the log; every other child of ROOT, and every other
\* file of the input directory, is left as it was.
C5_Relocation ==
    [][(pc = "relocate" /\ pc' = "tools") =>
          \A n \in RootNames :
             IF LooseImage(root, n)
             THEN IF input[n] = "absent"
                  THEN /\ input'[n] = root[n]
                       /\ root'[n] = "absent"
                       /\ {i \in About(log', n) : log'[i].msg = "skipping move"} = {}
                  ELSE /\ input'[n] = input[n]
                       /\ root'[n] = root[n]
                       /\ Cardinality({i \in About(log', n) : log'[i].msg = "skipping move"}) = 1
             ELSE /\ root'[n] = root[n]
                  /\ n \in Images => input'[n] = input[n]]_vars

\* C5 witness: after the relocation step one loose image (upper-case
\* extension) has been moved and another, whose name was taken, has not
C5_Witness ==
    /\ pc = "tools"
    /\ root["a.JPG"] = "absent" /\ input["a.JPG"] = "loose"
    /\ root["b.png"] = "loose" /\ input["b.png"] = "resident"
    /\ \E i \in About(log, "b.png") : log[i].msg = "skipping move"
    /\ root["old.png"] = "dir" /\ root["notes.txt"] = "notes"

\* the error-level log entries of this run that are about a file
FailureEntries == {i \in DOMAIN log : log[i].level = "ERROR" /\ log[i].file # ""}

\* C6 (as claimed): the log of a run holds exactly one failure (error-level)
\* entry per failing stage invocation.
C6_OneFailureEntryPerFailure ==
    Cardinality(FailureEntries) = Len(failures)

\* C7: run idempotence.  In a run without the overwrite flag that follows a
\* run without the overwrite flag in which every input file ended skipped or
\* succeeded, no external process is started, every file examined is skipped,
\* the input directory and the artifacts stay as the first run left them, and
\* when the run ends every input file is marked skipped and the status is 0.
C7_RunIdempotence ==
    (prev.settled /\ run >= 2 /\ ~OVERWRITE /\ ~usage /\ pc # "idle") =>
       /\ calls = <<>>
       /\ input = prev.ws.input
       /\ art = prev.ws.art
       /\ \A j \in DOMAIN outcome : outcome[j].state = "skipped"
       /\ pc = "exited" =>
             /\ exitStatus = 0
             /\ \A n \in FilesInInput : About(outcome, n) # {}

\* C7 witness: the second of two such runs has ended, and the artifacts it
\* found were written by the first run
C7_Witness ==
    /\ prev.settled /\ run >= 2 /\ ~OVERWRITE /\ ~usage /\ pc = "exited"
    /\ Len(outcome) = 2
    /\ \E s \in Stems : art[s]["pdf"].run = 1

\* the probe outputs that are numbers strictly greater than 0.05
AboveThreshold == {"0.06"}

\* C8: auto mode resolution (adv script).  After clean_png ran with the probe,
\* the resolved mode is 'color' iff the probe exited 0 and printed a number
\* strictly greater than 0.05, and 'bw' otherwise (0.05 itself, less, nonzero
\* exit, not a number); the clean transform was started in every case, and
\* with the bw argument list whenever the mode is not 'color'.
C8_AutoModeResolution ==
    probe.ran =>
       LET last == calls[Len(calls)] IN
       /\ mode = (IF probe.rc = 0 /\ probe.out \in AboveThreshold THEN "color" ELSE "bw")
       /\ Len(calls) >= 2
       /\ last.role = "clean"
       /\ calls[Len(calls) - 1] = Call("probe", last.file, FALSE, TRUE)
       /\ mode = "bw" =>
             lastCmd = <<"/usr/bin/magick", InputPath(last.file), "-level", "0%,80%",
                         "-alpha", "remove", "-alpha", "off", "-colorspace", "Gray",
                         "-threshold", "65%", ArtPath("cleaned", Stem(last.file))>>
       /\ mode = "color" =>
             lastCmd = <<"/usr/bin/magick", InputPath(last.file), "-level", "0%,80%",
                         "-dither", "None", "-colors", "8", "-colorspace", "Gray",
                         "-threshold", "65%", ArtPath("cleaned", Stem(last.file))>>

\* C8 witness: the probe exited 0 and printed exactly 0.05, and the clean
\* transform went on in bw mode
C8_Witness ==
    /\ probe.ran /\ probe.rc = 0 /\ probe.out = "0.05"
    /\ mode = "bw" /\ pc = "trace"

C10_UsageBypass ==
    (usage /\ pc # "idle") =>
       /\ pc = "exited" /\ exitStatus = 0
       /\ stdout = (IF prev.ws.root[ReadmeName] = "absent"
                    THEN "README.md not found." ELSE "README")
       /\ \A n \in RootNames \ {LogName} : root[n] = prev.ws.root[n]
       /\ input = prev.ws.input
       /\ art = prev.ws.art
       /\ calls = <<>> /\ log = <<>> /\ examined = <<>>

\* C10 witness: the usage flag was given together with the overwrite flag in
\* a workspace with a loose image, no stage directory and a missing tool
C10_Witness ==
    /\ usage /\ OVERWRITE /\ pc = "exited"
    /\ root["a.JPG"] = "loose"
    /\ root["input_png"] = "absent"
    /\ "potrace" \notin onPath

\* the states in which the script is inside trace_svg, blocked on a child
Waiting == tr.at \in {"run", "wait"}

\* C14 -- the trace stage never hangs on the pipe: once the tracer has exited,
\* however much of the stream it read, trace_svg is never left waiting with
\* nothing able to move; the converter drains or sees a broken pipe and the
\* call returns or raises.
C14_TraceNeverHangs ==
    (Waiting /\ tr.tracer = "exited") => ENABLED NextTrace

\* C15 -- the tracer's exit status is authoritative: once trace_svg is left,
\* it was left by an exception exactly when the tracer exited nonzero, whatever
\* the converter's status; a failing converter with a succeeding tracer
\* returns normally.
C15_TracerStatusAuthoritative ==
    tr.at \in {"returned", "raised"} => (tr.at = "raised" <=> tr.rc2 # 0)

\* C15 witness: the converter exited nonzero, the tracer zero, trace_svg returned
C15_Witness ==
    /\ tr.at = "returned"
    /\ tr.conv = "exited" /\ tr.rc1 = 1
    /\ tr.tracer = "exited" /\ tr.rc2 = 0

\* the WARNING entries of the run log
Warnings == {j \in DOMAIN log : log[j].level = "WARNING"}

\* C11 -- empty input: a run that passed the tool check and found no supported
\* file in the input directory logged exactly one warning, started no external
\* process, examined no file, and exited with status 0.
C11_EmptyInput ==
    (pc = "exited" /\ ~usage /\ onPath = ToolNames /\ FilesInInput = {}) =>
        /\ Cardinality(Warnings) = 1
        /\ \A j \in Warnings : log[j].msg = "No supported image files found"
        /\ calls = <<>>
        /\ examined = <<>>
        /\ exitStatus = 0

\* C11 witness: a run over an empty input directory has ended, tools found
C11_Witness ==
    /\ pc = "exited" /\ ~usage /\ onPath = ToolNames /\ FilesInInput = {}
    /\ input_files = <<>>
    /\ Warnings # {}

\* the four stages in the order of the try block
StageOrder == <<"clean", "trace", "export_png", "export_pdf">>

\* the stage invocations of file f that failed
FailedStages(f) == {failures[j].stage : j \in About(failures, f)}

\* the terminal states recorded for file f
StatesOf(f) == {outcome[j].state : j \in About(outcome, f)}

\* the stage invocations of file f, in the order they were started
StageCalls(f) == SelectSeq(calls, LAMBDA c : c.file = f /\ c.role \in Stages)

\* C12 -- per-file stage order and abort: the stages invoked for a file are an
\* initial part of clean, trace, export_png, export_pdf in that order, each at
\* most once; a stage that was followed by another did not fail, so after a
\* failed stage no later stage of the file is invoked; a file with a failed
\* stage is recorded failed; a file is recorded succeeded only if all four
\* stages were invoked and none failed.
C12_StageOrderAndAbort ==
    \A f \in {calls[j].file : j \in DOMAIN calls} \cup {outcome[j].file : j \in DOMAIN outcome} :
        LET invoked == StageCalls(f)
            n == Len(invoked)
            failed == FailedStages(f)
            states == StatesOf(f)
        IN  /\ n <= 4
            /\ \A k \in 1..n : invoked[k].role = StageOrder[k]
            /\ \A k \in 1..(n - 1) : StageOrder[k] \notin failed
            /\ failed \subseteq {StageOrder[k] : k \in {n} \ {0}}
            /\ failed # {} => states = {"failed"}
            /\ "succeeded" \in states => (n = 4 /\ failed = {})

\* C12 witness: a file whose trace stage failed after its clean stage
\* succeeded; it is recorded failed and the run has ended
C12_Witness ==
    /\ pc = "exited"
    /\ \E f \in Images :
         /\ Started(f, "clean") # {}
         /\ FailedStages(f) = {"trace"}
         /\ Started(f, "export_png") = {}
         /\ StatesOf(f) = {"failed"}

\* C13 -- trace joins both processes: every converter and every tracer the
\* trace stage started has been waited for by the time the stage is left.
C13_TraceJoinsBoth ==
    \A j \in DOMAIN calls :
        calls[j].role \in {"convert", "trace"} => calls[j].awaited

\* the log entries that record the command line of an external process
CommandEntries == {j \in DOMAIN log : log[j].msg = "Running"}

\* C16 -- log completeness: every external process the run started (probe,
\* clean, pipe converter, tracer, either export) has its command recorded in
\* the run log, and there are as many command entries as processes started.
C16_LogCompleteness ==
    /\ \A j \in DOMAIN calls : calls[j].logged
    /\ Cardinality(CommandEntries) = Len(calls)

\* the artifact a stage writes
KindOf(stage) ==
    CASE stage = "clean"      -> "cleaned"
      [] stage = "trace"      -> "svg"
      [] stage = "export_png" -> "png"
      [] OTHER                -> "pdf"

\* the artifact paths written in this run by the stage invocations of file f
WrittenFor(f) ==
    {ArtPath(KindOf(r), Stem(f)) : r \in {q \in Stages : Started(f, q) # {}} \ FailedStages(f)}

\* C17 -- independence between files: the artifact paths written for two
\* distinct input files are disjoint.
C17_DisjointArtifacts ==
    \A f \in Images, g \in Images :
        f # g => WrittenFor(f) \cap WrittenFor(g) = {}

\* files are gathered and examined in ascending path order, and the external
\* processes of an earlier file are all started before any of a later file
AscendingOrder ==
    /\ \A i \in DOMAIN input_files, j \in DOMAIN input_files :
         i < j => SortKey(input_files[i]) < SortKey(input_files[j])
    /\ \A i \in DOMAIN examined : examined[i].file = input_files[i]
    /\ \A i \in DOMAIN calls, j \in DOMAIN calls :
         SortKey(calls[i].file) < SortKey(calls[j].file) => i < j

\* C18 -- deterministic sequential order: files are examined in ascending path
\* order, and every external process of a file has been started and waited for
\* before any process of a later file is started.
C18_SequentialOrder ==
    /\ AscendingOrder
    /\ \A i \in DOMAIN calls, j \in DOMAIN calls :
         SortKey(calls[i].file) < SortKey(calls[j].file) => calls[i].awaited

\* the clean command of the advanced script has just been started
CleanJustRun ==
    /\ script = "adv"
    /\ pc \notin {"idle", "exited"}
    /\ calls # <<>>
    /\ calls[Len(calls)].role = "clean"

\* positions of a flag in an argv
At(cmd, flag) == {j \in DOMAIN cmd : cmd[j] = flag}

\* C19 -- clean transform order of the advanced script: the argv is the
\* source, the level adjustment, the negation exactly when invert is on, the
\* branch of the resolved mode, and the destination last; the threshold is
\* the last transform and the color branch carries no alpha flag.
C19_CleanTransformOrder ==
    CleanJustRun =>
        LET f == calls[Len(calls)].file
            n == Len(lastCmd)
        IN  /\ lastCmd =
                 <<Which("magick", onPath), InputPath(f), "-level", "0%,80%">>
                 \o (IF INVERT = "on" THEN <<"-negate">> ELSE <<>>)
                 \o (IF mode = "color"
                     THEN <<"-dither", "None", "-colors", "8",
                            "-colorspace", "Gray", "-threshold", "65%">>
                     ELSE <<"-alpha", "remove", "-alpha", "off",
                            "-colorspace", "Gray", "-threshold", "65%">>)
                 \o <<ArtPath("cleaned", Stem(f))>>
            /\ At(lastCmd, "-level") = {3}
            /\ \A j \in At(lastCmd, "-negate") : j = 5
            /\ At(lastCmd, "-threshold") = {n - 2}
            /\ mode = "color" => At(lastCmd, "-alpha") = {}

\* C19 witness: a color-mode clean command with the negation has been started
C19_Witness ==
    /\ CleanJustRun
    /\ mode = "color"
    /\ INVERT = "on"
    /\ Len(lastCmd) = 14

\* C20 -- failed files are retried: a file is skipped only if the four
\* artifacts of its stem were all written by one and the same attempt (which
\* then passed all four stages).
C20_SkipOnlyAfterSuccess ==
    \A j \in DOMAIN outcome :
        outcome[j].state = "skipped" =>
            \A k \in Kinds :
                art[Stem(outcome[j].file)][k] = art[Stem(outcome[j].file)]["pdf"]

====
